---- MODULE Spec2Model ----
(***************************************************************************)
(* Model of src/app.py: a Dash dashboard that loads a station catalog and  *)
(* the 2023 measurement records once at import time, shows the stations on *)
(* a map and, in the callback actualizar_grafico, a line chart of the      *)
(* records of the station whose marker was clicked.                        *)
(***************************************************************************)
EXTENDS Integers, Sequences, FiniteSets, TLC

VARIABLES
    config,               \* dotenv_values('/home/chris/.env'), line 10
    dbUp,                 \* whether the database accepts connections
    dbEstaciones,         \* rows of estacion_punto_monitoreo after the joins and WHERE of lines 35-42
    dbRegistros,          \* rows of registro_monitoreo, in the order the database returns them
    pc,                   \* position in the module-level code of app.py
    engine,               \* line 27
    geometrias_df,        \* line 77
    datos_historicos_df,  \* line 78
    estacion_a_codigo,    \* line 81
    bounds,               \* line 92
    abierta,              \* per session: the page is loaded in a browser
    variable,             \* per session: value of 'variable-dropdown'
    clickData,            \* per session: clickData of 'mapa-interactivo'
    pendientes,           \* per session: requests to actualizar_grafico in flight, in issue order
    pendientesMapa,       \* per session: requests to actualizar_mapa in flight
    grafico_historico,    \* per session: figure shown in 'grafico-historico'
    mapa_interactivo      \* per session: figure shown in 'mapa-interactivo'

datos == <<config, dbUp, dbEstaciones, dbRegistros, pc, engine, geometrias_df,
           datos_historicos_df, estacion_a_codigo, bounds>>
sesiones == <<abierta, variable, clickData, pendientes, pendientesMapa,
              grafico_historico, mapa_interactivo>>
vars == <<config, dbUp, dbEstaciones, dbRegistros, pc, engine, geometrias_df,
          datos_historicos_df, estacion_a_codigo, bounds, abierta, variable,
          clickData, pendientes, pendientesMapa, grafico_historico, mapa_interactivo>>

----------------------------------------------------------------------------
(* Bounds of the model *)

\* requests to one callback a session may have in flight
MaxPending == 2
\* rows the station query may return
MaxEstaciones == 2
\* rows the measurement query may scan
MaxRegistros == 2

----------------------------------------------------------------------------
(* Values *)

\* Python None
None == [t |-> "None"]
\* a graph component that has not received a figure yet
NoFigure == [t |-> "NoFigure"]
\* a module-level name that has not been assigned yet
Unset == [t |-> "Unset"]

\* a cell of a query result: a number (in thousandths), SQL NULL, or the
\* floating point not-a-number value
Num(n) == [t |-> "num", n |-> n]
NULL == [t |-> "NULL", n |-> 0]
NaN == [t |-> "NaN", n |-> 0]

\* the options of 'variable-dropdown'; they are also the column names of the
\* measurement query
Variables == {"temperatura (°C)", "humedad relativa (%)", "presión atmosferica (hPAS)",
              "direccion viento (°)", "fuerza viento (kt)", "precipitación (mm)",
              "radiacion (W/m²)"}
VariableInicial == "temperatura (°C)"

ClavesConfig == {"DB_HOST_P", "DB_NAME_P", "DB_USER_P", "DB_PASSWORD_P"}
\* a key of the .env file is absent (config.get gives None), empty, or set
Ausente == "<None>"
ValoresConfig == {Ausente, "", "v"}

Sessions == {"s1", "s2"}

----------------------------------------------------------------------------
(* conectar_bd *)

\* Python truthiness of a value of the .env file
Truthy(x) == x # Ausente /\ x # ""

\* conectar_bd with any() in the place of all(): one setting suffices
conectar_bd_any ==
    IF ~(\E k \in ClavesConfig : Truthy(config[k]))
    THEN None
    ELSE [t |-> "Engine", user |-> config["DB_USER_P"], password |-> config["DB_PASSWORD_P"],
          host |-> config["DB_HOST_P"], name |-> config["DB_NAME_P"]]

conectar_bd ==
    LET db_host == config["DB_HOST_P"]
        db_name == config["DB_NAME_P"]
        db_user == config["DB_USER_P"]
        db_password == config["DB_PASSWORD_P"]
    IN  IF ~(\A x \in {db_host, db_name, db_user, db_password} : Truthy(x))
        THEN None
        ELSE [t |-> "Engine", user |-> db_user, password |-> db_password,
              host |-> db_host, name |-> db_name]

----------------------------------------------------------------------------
(* The two queries *)

\* the engine can open a connection: it exists and the database answers
Conecta(e) == e # None /\ dbUp

\* SELECT list of obtener_geometrias applied to one station row
FilaGeometria(p) ==
    [codigo_de_estacion |-> p.cod_estacion, nombre_de_estacion |-> p.nombre,
     latitud |-> p.latitud, longitud |-> p.longitud]

obtener_geometrias ==
    [i \in 1..Len(dbEstaciones) |-> FilaGeometria(dbEstaciones[i])]

Abs(n) == IF n < 0 THEN -n ELSE n

\* ROUND(x::numeric, d) on a value in thousandths: unidad is 10 for two
\* decimals and 100 for one; halves round away from zero; NULL and NaN pass
RoundNumeric(x, unidad) ==
    IF x.t # "num" THEN x
    ELSE LET q == ((Abs(x.n) + (unidad \div 2)) \div unidad) * unidad
         IN  Num(IF x.n < 0 THEN -q ELSE q)

\* NULLIF(x, 'NaN')
NullIfNaN(x) == IF x = NaN THEN NULL ELSE x

\* the expression the query selects for each measurement column
ColumnaConsulta(f, x) ==
    CASE f = "humedad relativa (%)" -> RoundNumeric(x, 100)
      [] f = "radiacion (W/m²)" -> RoundNumeric(NullIfNaN(x), 10)
      [] OTHER -> RoundNumeric(x, 10)

\* to_char(re.fecha, 'YYYY-MM'); strings of this shape compare like yyyy*100+mm
ToCharMes(fecha) == fecha[1] * 100 + fecha[2]

\* SELECT list of obtener_datos_historicos applied to one measurement row
FilaHistorica(re) ==
    [codigo_de_estacion |-> re.cod_estacion,
     mes |-> ToCharMes(re.fecha),
     valores |-> [f \in Variables |-> ColumnaConsulta(f, re.campos[f])]]

\* the measurement row re once for every station row it joins with
RECURSIVE Unir(_, _)
Unir(re, ps) ==
    IF ps = <<>> THEN <<>>
    ELSE (IF Head(ps).cod_estacion = re.cod_estacion
          THEN <<FilaHistorica(re)>> ELSE <<>>) \o Unir(re, Tail(ps))

\* rows of the year the query is fixed to
AnioConsulta == 2023

\* FROM ... INNER JOIN ... WHERE ... of obtener_datos_historicos, in the order
\* the database scans the rows (the query has no ORDER BY)
RECURSIVE ConsultaHistorica(_, _)
ConsultaHistorica(res, ps) ==
    IF res = <<>> THEN <<>>
    ELSE (IF Head(res).fecha[1] = AnioConsulta THEN Unir(Head(res), ps) ELSE <<>>)
         \o ConsultaHistorica(Tail(res), ps)

obtener_datos_historicos == ConsultaHistorica(dbRegistros, dbEstaciones)

----------------------------------------------------------------------------
(* Module-level derived data *)

\* a station code as a Python object, so that it can be compared with None
PyInt(c) == [t |-> "int", n |-> c]

\* set_index('nombre de estacion')['codigo de estacion'].to_dict(): a later
\* row with the same name replaces the earlier one
RECURSIVE ToDict(_)
ToDict(df) ==
    IF df = <<>> THEN <<>>
    ELSE LET resto == ToDict(SubSeq(df, 1, Len(df) - 1))
             ult == df[Len(df)]
         IN  [k \in (DOMAIN resto) \cup {ult.nombre_de_estacion} |->
                 IF k = ult.nombre_de_estacion THEN PyInt(ult.codigo_de_estacion)
                 ELSE resto[k]]

\* dict.get with the first station's code as default in the place of None
DictGetConDefecto(d, k) == IF k \in DOMAIN d THEN d[k] ELSE PyInt(1)

\* dict.get(k, None)
DictGet(d, k) == IF k \in DOMAIN d THEN d[k] ELSE None

\* the numbers of a column, NULL cells skipped as pandas skips them
NoNulos(df, col) == {df[i][col].n : i \in {j \in 1..Len(df) : df[j][col].t = "num"}}

\* Series.min() written as .max()
ColMinComoMax(df, col) ==
    LET S == NoNulos(df, col)
    IN  IF S = {} THEN NaN ELSE Num(CHOOSE x \in S : \A y \in S : x >= y)

\* Series.min(): NaN when no cell holds a number
ColMin(df, col) ==
    LET S == NoNulos(df, col)
    IN  IF S = {} THEN NaN ELSE Num(CHOOSE x \in S : \A y \in S : x <= y)

\* Series.max()
ColMax(df, col) ==
    LET S == NoNulos(df, col)
    IN  IF S = {} THEN NaN ELSE Num(CHOOSE x \in S : \A y \in S : x >= y)

CalcularBoundingBox(df) ==
    LET min_lat == ColMin(df, "latitud")
        max_lat == ColMax(df, "latitud")
        min_lon == ColMin(df, "longitud")
        max_lon == ColMax(df, "longitud")
    IN  <<<<min_lat, min_lon>>, <<max_lat, max_lon>>>>

----------------------------------------------------------------------------
(* The callbacks *)

\* px.scatter_mapbox(geometrias_df, lat, lon, hover_name): one marker per row
actualizar_mapa(v) ==
    [t |-> "mapa",
     puntos |-> [i \in 1..Len(geometrias_df) |->
                    [lat |-> geometrias_df[i].latitud,
                     lon |-> geometrias_df[i].longitud,
                     hovertext |-> geometrias_df[i].nombre_de_estacion]]]

\* px.line(df, x='mes', y=v, title=...): one point per row, in row order
PxLine(df, v, title) ==
    [t |-> "linea",
     puntos |-> [i \in 1..Len(df) |-> [x |-> df[i].mes, y |-> df[i].valores[v]]],
     y |-> v,
     title |-> title]

\* datos_historicos_df[datos_historicos_df['codigo de estacion'] == codigo]
Filtrar(df, codigo) ==
    SelectSeq(df, LAMBDA r : r.codigo_de_estacion = codigo)

TituloSerie(v, estacion_nombre) ==
    [msg |-> "en", variable |-> v, estacion |-> estacion_nombre]
TituloNoEncontrada ==
    [msg |-> "No se encontró la estación seleccionada", variable |-> "", estacion |-> ""]
TituloSelecciona ==
    [msg |-> "Selecciona una estación en el mapa", variable |-> "", estacion |-> ""]

actualizar_grafico(v, cd) ==
    IF cd # None
    THEN LET estacion_nombre == cd.points[1].hovertext
             estacion_codigo == DictGet(estacion_a_codigo, estacion_nombre)
         IN  IF estacion_codigo # None
             THEN LET df_filtrado == Filtrar(datos_historicos_df, estacion_codigo.n)
                  IN  PxLine(df_filtrado, v, TituloSerie(v, estacion_nombre))
             ELSE PxLine(<<>>, v, TituloNoEncontrada)
    ELSE PxLine(<<>>, v, TituloSelecciona)

----------------------------------------------------------------------------
(* Module-level code of app.py, run once when the module is imported *)

\* line 27: engine = conectar_bd()
ConectarBd ==
    /\ pc = "l27"
    /\ engine' = conectar_bd
    /\ pc' = "l77"
    /\ UNCHANGED <<config, dbUp, dbEstaciones, dbRegistros, geometrias_df,
                   datos_historicos_df, estacion_a_codigo, bounds>>
    /\ UNCHANGED sesiones

\* line 77: engine.connect() raises when engine is None (AttributeError) or
\* the database does not answer, and the import of the module ends there
CargarGeometrias ==
    /\ pc = "l77"
    /\ IF Conecta(engine)
       THEN geometrias_df' = obtener_geometrias /\ pc' = "l78"
       ELSE geometrias_df' = geometrias_df /\ pc' = "error"
    /\ UNCHANGED <<config, dbUp, dbEstaciones, dbRegistros, engine,
                   datos_historicos_df, estacion_a_codigo, bounds>>
    /\ UNCHANGED sesiones

\* line 78
CargarDatosHistoricos ==
    /\ pc = "l78"
    /\ IF Conecta(engine)
       THEN datos_historicos_df' = obtener_datos_historicos /\ pc' = "l81"
       ELSE datos_historicos_df' = datos_historicos_df /\ pc' = "error"
    /\ UNCHANGED <<config, dbUp, dbEstaciones, dbRegistros, engine,
                   geometrias_df, estacion_a_codigo, bounds>>
    /\ UNCHANGED sesiones

\* line 81
CrearDiccionario ==
    /\ pc = "l81"
    /\ estacion_a_codigo' = ToDict(geometrias_df)
    /\ pc' = "l88"
    /\ UNCHANGED <<config, dbUp, dbEstaciones, dbRegistros, engine,
                   geometrias_df, datos_historicos_df, bounds>>
    /\ UNCHANGED sesiones

\* lines 88-92
CalcularBounds ==
    /\ pc = "l88"
    /\ bounds' = CalcularBoundingBox(geometrias_df)
    /\ pc' = "l95"
    /\ UNCHANGED <<config, dbUp, dbEstaciones, dbRegistros, engine,
                   geometrias_df, datos_historicos_df, estacion_a_codigo>>
    /\ UNCHANGED sesiones

\* lines 95-181: the app, its layout and callbacks are set up and served
RunServer ==
    /\ pc = "l95"
    /\ pc' = "sirviendo"
    /\ UNCHANGED <<config, dbUp, dbEstaciones, dbRegistros, engine, geometrias_df,
                   datos_historicos_df, estacion_a_codigo, bounds>>
    /\ UNCHANGED sesiones

Arranque ==
    \/ ConectarBd
    \/ CargarGeometrias
    \/ CargarDatosHistoricos
    \/ CrearDiccionario
    \/ CalcularBounds
    \/ RunServer

----------------------------------------------------------------------------
(* Sessions: what the browser sends and what the callbacks answer *)

\* the arguments of one invocation of actualizar_grafico
Peticion(v, cd) == [variable |-> v, clickData |-> cd]

\* clickData of a click on marker i of the map figure fig
ClickEn(fig, i) ==
    [points |-> <<[pointIndex |-> i, hovertext |-> fig.puntos[i].hovertext]>>]

\* a marker is drawn, and can be clicked, when both its coordinates are numbers
Dibujado(fig, i) == fig.puntos[i].lat.t = "num" /\ fig.puntos[i].lon.t = "num"

\* hover name of a marker of a map drawn by an earlier run of the server,
\* which the catalog loaded by this run does not hold
NombreObsoleto == "Z"
ClickObsoleto == [points |-> <<[pointIndex |-> 1, hovertext |-> NombreObsoleto]>>]

Quitar(q, k) == SubSeq(q, 1, k - 1) \o SubSeq(q, k + 1, Len(q))

\* the page is loaded: the layout's initial values are in place (lines 98-125)
\* and both callbacks are invoked once with them
OpenSession(s) ==
    /\ pc = "sirviendo"
    /\ ~abierta[s]
    /\ abierta' = [abierta EXCEPT ![s] = TRUE]
    /\ variable' = [variable EXCEPT ![s] = VariableInicial]
    /\ clickData' = [clickData EXCEPT ![s] = None]
    /\ pendientes' = [pendientes EXCEPT ![s] = <<Peticion(VariableInicial, None)>>]
    /\ pendientesMapa' = [pendientesMapa EXCEPT ![s] = 1]
    /\ UNCHANGED <<grafico_historico, mapa_interactivo>>
    /\ UNCHANGED datos

\* a dropdown change that also clears the click
ChangeVariableReinicia(s, v, cap) ==
    /\ abierta[s]
    /\ v # variable[s]
    /\ Len(pendientes[s]) < cap
    /\ pendientesMapa[s] < cap
    /\ variable' = [variable EXCEPT ![s] = v]
    /\ clickData' = [clickData EXCEPT ![s] = None]
    /\ pendientes' = [pendientes EXCEPT ![s] = Append(@, Peticion(v, None))]
    /\ pendientesMapa' = [pendientesMapa EXCEPT ![s] = @ + 1]
    /\ UNCHANGED <<abierta, grafico_historico, mapa_interactivo>>
    /\ UNCHANGED datos

\* the user picks option v of 'variable-dropdown': Input of both callbacks
ChangeVariable(s, v, cap) ==
    /\ abierta[s]
    /\ v # variable[s]
    /\ Len(pendientes[s]) < cap
    /\ pendientesMapa[s] < cap
    /\ variable' = [variable EXCEPT ![s] = v]
    /\ pendientes' = [pendientes EXCEPT ![s] = Append(@, Peticion(v, clickData[s]))]
    /\ pendientesMapa' = [pendientesMapa EXCEPT ![s] = @ + 1]
    /\ UNCHANGED <<abierta, clickData, grafico_historico, mapa_interactivo>>
    /\ UNCHANGED datos

\* the user clicks a marker: clickData is set, Input of actualizar_grafico
SetClickData(s, cd, cap) ==
    /\ abierta[s]
    /\ cd # clickData[s]
    /\ Len(pendientes[s]) < cap
    /\ clickData' = [clickData EXCEPT ![s] = cd]
    /\ pendientes' = [pendientes EXCEPT ![s] = Append(@, Peticion(variable[s], cd))]
    /\ UNCHANGED <<abierta, variable, pendientesMapa, grafico_historico, mapa_interactivo>>
    /\ UNCHANGED datos

\* click on marker i of the map the session shows
Click(s, i, cap) ==
    /\ mapa_interactivo[s] # NoFigure
    /\ i \in 1..Len(mapa_interactivo[s].puntos)
    /\ Dibujado(mapa_interactivo[s], i)
    /\ SetClickData(s, ClickEn(mapa_interactivo[s], i), cap)

\* click on a marker left from an earlier run of the server
ClickStale(s, cap) == SetClickData(s, ClickObsoleto, cap)

\* the figure kept in one module-level name that every session shows
CallbackGraficoGlobal(s, k) ==
    /\ k \in 1..Len(pendientes[s])
    /\ grafico_historico' = [t \in Sessions |->
           actualizar_grafico(pendientes[s][k].variable, pendientes[s][k].clickData)]
    /\ pendientes' = [pendientes EXCEPT ![s] = Quitar(@, k)]
    /\ UNCHANGED <<abierta, variable, clickData, pendientesMapa, mapa_interactivo>>
    /\ UNCHANGED datos

\* request k of the session is answered: actualizar_grafico runs on its
\* arguments and the figure it returns is shown in 'grafico-historico'
CallbackGrafico(s, k) ==
    /\ k \in 1..Len(pendientes[s])
    /\ grafico_historico' = [grafico_historico EXCEPT ![s] =
           actualizar_grafico(pendientes[s][k].variable, pendientes[s][k].clickData)]
    /\ pendientes' = [pendientes EXCEPT ![s] = Quitar(@, k)]
    /\ UNCHANGED <<abierta, variable, clickData, pendientesMapa, mapa_interactivo>>
    /\ UNCHANGED datos

\* a request to actualizar_mapa is answered; the callback does not read its
\* argument, so the requests in flight are only counted
CallbackMapa(s) ==
    /\ pendientesMapa[s] > 0
    /\ mapa_interactivo' = [mapa_interactivo EXCEPT ![s] = actualizar_mapa(variable[s])]
    /\ pendientesMapa' = [pendientesMapa EXCEPT ![s] = @ - 1]
    /\ UNCHANGED <<abierta, variable, clickData, pendientes, grafico_historico>>
    /\ UNCHANGED datos

----------------------------------------------------------------------------
(* What the environment may hold: the .env file and the database *)

SeqsUpTo(S, n) == UNION {[1..k -> S] : k \in 0..n}

Codigos == {1, 2}
Nombres == {"A", "B"}
\* latitude and longitude of a station, in degrees; a station may have none
Coordenadas == {<<Num(-23), Num(-70)>>, <<Num(-33), Num(-71)>>, <<NULL, NULL>>}

EstacionFila(c, n, xy) ==
    [cod_estacion |-> c, nombre |-> n, latitud |-> xy[1], longitud |-> xy[2]]
EstacionFilas ==
    {EstacionFila(c, n, xy) : c \in Codigos, n \in Nombres, xy \in Coordenadas}

\* a measurement row whose seven sensor columns all hold x
RegistroFila(c, fecha, x) ==
    [cod_estacion |-> c, fecha |-> fecha, campos |-> [f \in Variables |-> x]]
\* date (year, month) and sensor value (thousandths) of the rows tried
Lecturas == {<<<<2023, 1>>, Num(18444)>>, <<<<2023, 2>>, NaN>>, <<<<2022, 2>>, Num(18444)>>}
RegistroFilas == {RegistroFila(c, l[1], l[2]) : c \in Codigos, l \in Lecturas}

ConfigOK == [k \in ClavesConfig |-> "v"]

\* two stations with names of their own
EstacionesRef ==
    <<EstacionFila(1, "A", <<Num(-23), Num(-70)>>),
      EstacionFila(2, "B", <<Num(-33), Num(-71)>>)>>
\* two stations, with different codes, that share their display name
EstacionesHomonimas ==
    <<EstacionFila(1, "A", <<Num(-23), Num(-70)>>),
      EstacionFila(2, "A", <<Num(-33), Num(-71)>>)>>
RegistrosRef ==
    <<RegistroFila(1, <<2023, 1>>, Num(18444)),
      RegistroFila(2, <<2023, 2>>, NaN)>>

\* options of the dropdown the user picks in the specifications with
\* requests in flight
VariablesPrueba == {"temperatura (°C)", "radiacion (W/m²)"}

----------------------------------------------------------------------------
(* Specifications *)

\* state when the interpreter starts to import app.py
InitPrograma ==
    /\ pc = "l27"
    /\ engine = Unset
    /\ geometrias_df = Unset
    /\ datos_historicos_df = Unset
    /\ estacion_a_codigo = Unset
    /\ bounds = Unset
    /\ abierta = [s \in Sessions |-> FALSE]
    /\ variable = [s \in Sessions |-> VariableInicial]
    /\ clickData = [s \in Sessions |-> None]
    /\ pendientes = [s \in Sessions |-> <<>>]
    /\ pendientesMapa = [s \in Sessions |-> 0]
    /\ grafico_historico = [s \in Sessions |-> NoFigure]
    /\ mapa_interactivo = [s \in Sessions |-> NoFigure]

\* markers of the map session s shows
Marcadores(s) ==
    IF mapa_interactivo[s] = NoFigure THEN {} ELSE DOMAIN mapa_interactivo[s].puntos

\* one session with up to MaxPending requests in flight
Init ==
    /\ config = ConfigOK
    /\ dbUp = TRUE
    /\ dbEstaciones \in {EstacionesRef, EstacionesHomonimas}
    /\ dbRegistros = RegistrosRef
    /\ InitPrograma

Next ==
    \/ Arranque
    \/ OpenSession("s1")
    \/ \E v \in VariablesPrueba : ChangeVariable("s1", v, MaxPending)
    \/ \E i \in Marcadores("s1") : Click("s1", i, MaxPending)
    \/ ClickStale("s1", MaxPending)
    \/ \E k \in 1..MaxPending : CallbackGrafico("s1", k)
    \/ CallbackMapa("s1")

Spec == Init /\ [][Next]_vars

\* several sessions, each waiting for its answer before its next event
NextSesiones ==
    \/ Arranque
    \/ \E s \in Sessions :
        \/ OpenSession(s)
        \/ \E v \in VariablesPrueba : ChangeVariable(s, v, 1)
        \/ \E i \in Marcadores(s) : Click(s, i, 1)
        \/ ClickStale(s, 1)
        \/ CallbackGrafico(s, 1)
        \/ CallbackMapa(s)

SpecSesiones == Init /\ [][NextSesiones]_vars

\* the import of the module under every .env file and station table
InitCarga ==
    /\ \/ /\ config \in [ClavesConfig -> ValoresConfig]
          /\ dbUp \in BOOLEAN
          /\ dbEstaciones = EstacionesRef
       \/ /\ config = ConfigOK
          /\ dbUp = TRUE
          /\ dbEstaciones \in SeqsUpTo(EstacionFilas, MaxEstaciones)
    /\ dbRegistros = RegistrosRef
    /\ InitPrograma

\* the import, and a browser that loads the page once the server runs
NextCarga ==
    \/ Arranque
    \/ OpenSession("s1")
    \/ CallbackGrafico("s1", 1)
    \/ CallbackMapa("s1")

SpecCarga == InitCarga /\ [][NextCarga]_vars

\* one session, one request at a time, over every measurement table
InitDatos ==
    /\ config = ConfigOK
    /\ dbUp = TRUE
    /\ dbEstaciones = EstacionesRef
    /\ dbRegistros \in SeqsUpTo(RegistroFilas, MaxRegistros)
    /\ InitPrograma

NextDatos ==
    \/ Arranque
    \/ OpenSession("s1")
    \/ \E v \in Variables : ChangeVariable("s1", v, 1)
    \/ \E i \in Marcadores("s1") : Click("s1", i, 1)
    \/ ClickStale("s1", 1)
    \/ CallbackGrafico("s1", 1)
    \/ CallbackMapa("s1")

SpecDatos == InitDatos /\ [][NextDatos]_vars

----------------------------------------------------------------------------
(* Vocabulary of the properties *)

\* hover name of the click cd
Hovertext(cd) == cd.points[1].hovertext

\* cd is a click on a marker of the catalog this run of the server loaded
EsMarcador(cd) == cd # None /\ Hovertext(cd) # NombreObsoleto

\* cd is a click whose hover name no station of the catalog has
NoResuelve(cd) ==
    /\ cd # None
    /\ \A i \in DOMAIN geometrias_df : geometrias_df[i].nombre_de_estacion # Hovertext(cd)

\* code of the station whose marker the click cd is on
CodigoClicado(cd) == geometrias_df[cd.points[1].pointIndex].codigo_de_estacion

\* the loaded records of station c, as points of variable v, in loaded order
PuntosDe(c, v) ==
    LET F == SelectSeq(datos_historicos_df, LAMBDA r : r.codigo_de_estacion = c)
    IN  [i \in 1..Len(F) |-> [x |-> F[i].mes, y |-> F[i].valores[v]]]

\* session s is open and none of its chart updates is in flight
Quieta(s) == abierta[s] /\ pendientes[s] = <<>>

\* the chart shows a station's series
EsSerie(fig) == fig # NoFigure /\ fig.title.msg = "en"

\* the chart is the empty one of a click that found no station
EsNoEncontrada(fig) ==
    fig # NoFigure /\ fig.puntos = <<>> /\ fig.title = TituloNoEncontrada

\* the chart is the placeholder shown while nothing is selected
EsPlaceholder(fig) ==
    fig # NoFigure /\ fig.puntos = <<>> /\ fig.title = TituloSelecciona

\* everything session s holds
EstadoSesion(s) ==
    <<abierta[s], variable[s], clickData[s], pendientes[s], pendientesMapa[s],
      grafico_historico[s], mapa_interactivo[s]>>

----------------------------------------------------------------------------
(* C1 *)

\* C1: last request wins. Once no chart update of a session is in flight, a
\* chart that shows a station's series shows the station of the session's
\* last click, never the station of an earlier click whose update came late.
C1_UltimaPeticionGana ==
    \A s \in Sessions :
        (Quieta(s) /\ clickData[s] # None /\ EsSerie(grafico_historico[s]))
            => grafico_historico[s].title.estacion = Hovertext(clickData[s])

(* C2 *)

\* C2: after a click on the marker of a catalog station has been handled, the
\* chart holds exactly the loaded records whose station code is the code of
\* the clicked station.
C2_GraficoDeLaEstacionClicada ==
    \A s \in Sessions :
        (Quieta(s) /\ EsMarcador(clickData[s]))
            => grafico_historico[s].puntos =
                   PuntosDe(CodigoClicado(clickData[s]), variable[s])

(* C3 *)

\* C3: whenever the update of a click that resolves to no station of the
\* catalog is delivered, whatever the chart showed before, the chart becomes
\* the empty "station not found" chart: no points, no station in its title.
C3_ClickNoResueltoVaciaElGrafico ==
    [][\A s \in Sessions :
          Len(pendientes'[s]) < Len(pendientes[s]) =>
              \E k \in DOMAIN pendientes[s] :
                  /\ pendientes'[s] = Quitar(pendientes[s], k)
                  /\ NoResuelve(pendientes[s][k].clickData)
                         => EsNoEncontrada(grafico_historico'[s])]_vars

\* a session whose last click resolved to no station shows the empty chart
C3_Witness ==
    \E s \in Sessions :
        /\ Quieta(s)
        /\ clickData[s] = ClickObsoleto
        /\ EsNoEncontrada(grafico_historico[s])

(* C4 *)

\* the chart of f and of g is for the same selection: same kind of title,
\* same station, same months
MismaSeleccion(f, g) ==
    /\ f.title.msg = g.title.msg
    /\ f.title.estacion = g.title.estacion
    /\ [i \in DOMAIN f.puntos |-> f.puntos[i].x] = [i \in DOMAIN g.puntos |-> g.puntos[i].x]

\* while nothing has been clicked the selection is none and the chart, once
\* drawn, is the placeholder
C4_SinSeleccion ==
    \A s \in Sessions :
        /\ ~abierta[s] => clickData[s] = None
        /\ (abierta[s] /\ clickData[s] = None /\ grafico_historico[s] # NoFigure)
               => EsPlaceholder(grafico_historico[s])

\* C4: the selection is none at session start and only a station click
\* changes it: a step that changes the dropdown leaves clickData alone and
\* requests the chart of the same selection for the new variable, and a step
\* that changes clickData is a click (clickData set, variable kept, one request).
C4_SoloElClickCambiaLaSeleccion ==
    /\ []C4_SinSeleccion
    /\ [][\A s \in Sessions :
            /\ (abierta'[s] /\ ~abierta[s]) => clickData'[s] = None
            /\ variable'[s] # variable[s] =>
                   /\ clickData'[s] = clickData[s]
                   /\ pendientes'[s] =
                          Append(pendientes[s], Peticion(variable'[s], clickData[s]))
                   /\ actualizar_grafico(variable'[s], clickData[s]).y = variable'[s]
                   /\ MismaSeleccion(actualizar_grafico(variable[s], clickData[s]),
                                     actualizar_grafico(variable'[s], clickData[s]))
            /\ clickData'[s] # clickData[s] =>
                   /\ clickData'[s] # None
                   /\ variable'[s] = variable[s]
                   /\ pendientes'[s] =
                          Append(pendientes[s], Peticion(variable[s], clickData'[s]))]_vars

\* a station is selected, the dropdown was changed afterwards, and the chart
\* shows that station for the new variable
C4_Witness ==
    \E s \in Sessions :
        /\ Quieta(s)
        /\ EsMarcador(clickData[s])
        /\ variable[s] # VariableInicial
        /\ EsSerie(grafico_historico[s])
        /\ grafico_historico[s].title = TituloSerie(variable[s], Hovertext(clickData[s]))

(* C5 *)

\* C5: sessions are independent. With sessions that interleave their events,
\* each with one chart update in flight at a time: once the server runs no
\* step writes the module-level data; a step changes the state of at most one
\* session; and a chart that changes becomes the chart of its own session's
\* current variable and click, whatever the other sessions hold.
C5_SesionesIndependientes ==
    [][/\ pc = "sirviendo" =>
              UNCHANGED <<geometrias_df, datos_historicos_df, estacion_a_codigo, bounds>>
       /\ \A s \in Sessions : \A t \in Sessions \ {s} :
              EstadoSesion(s)' # EstadoSesion(s) => EstadoSesion(t)' = EstadoSesion(t)
       /\ \A s \in Sessions :
              grafico_historico'[s] # grafico_historico[s] =>
                  grafico_historico'[s] = actualizar_grafico(variable[s], clickData[s])]_vars

\* two sessions at rest, each with a selection and a chart of its own
C5_Witness ==
    /\ \A s \in Sessions :
           Quieta(s) /\ EsMarcador(clickData[s]) /\ EsSerie(grafico_historico[s])
    /\ clickData["s1"] # clickData["s2"]
    /\ variable["s1"] # variable["s2"]
    /\ grafico_historico["s1"].title.estacion # grafico_historico["s2"].title.estacion

(* C6 *)

\* one of the four connection settings is absent or empty
ConfigIncompleta == \E k \in ClavesConfig : config[k] \in {Ausente, ""}

\* C6: with a connection setting absent or empty the import of the module
\* never gets past the first query: no catalog, no measurement table, no
\* dictionary and no bounding box are ever loaded, the server never runs and
\* no session is ever opened.
C6_ConfigIncompletaEsFatal ==
    ConfigIncompleta =>
        /\ pc \in {"l27", "l77", "error"}
        /\ geometrias_df = Unset
        /\ datos_historicos_df = Unset
        /\ estacion_a_codigo = Unset
        /\ bounds = Unset
        /\ \A s \in Sessions :
               /\ ~abierta[s]
               /\ grafico_historico[s] = NoFigure
               /\ mapa_interactivo[s] = NoFigure

\* the import has failed because of an incomplete configuration
C6_Witness == ConfigIncompleta /\ pc = "error" /\ engine = None /\ dbUp

(* C7 *)

\* C7: the points of every chart drawn are in ascending order of month.
C7_GraficoOrdenadoPorMes ==
    \A s \in Sessions :
        grafico_historico[s] # NoFigure =>
            \A i \in DOMAIN grafico_historico[s].puntos :
                \A j \in DOMAIN grafico_historico[s].puntos :
                    i < j => grafico_historico[s].puntos[i].x
                                 <= grafico_historico[s].puntos[j].x

(* C8 *)

C9_BoundsContienenLasEstaciones ==
    bounds # Unset =>
        \A i \in DOMAIN geometrias_df :
            /\ geometrias_df[i].latitud.t = "num" =>
                   /\ bounds[1][1].t = "num" /\ bounds[2][1].t = "num"
                   /\ bounds[1][1].n <= geometrias_df[i].latitud.n
                   /\ geometrias_df[i].latitud.n <= bounds[2][1].n
            /\ geometrias_df[i].longitud.t = "num" =>
                   /\ bounds[1][2].t = "num" /\ bounds[2][2].t = "num"
                   /\ bounds[1][2].n <= geometrias_df[i].longitud.n
                   /\ geometrias_df[i].longitud.n <= bounds[2][2].n

\* a bounding box computed over two stations at different places
C9_Witness ==
    /\ bounds # Unset
    /\ Len(geometrias_df) >= 2
    /\ bounds[1][1].t = "num" /\ bounds[2][1].t = "num"
    /\ bounds[1][1].n < bounds[2][1].n
    /\ bounds[1][2].n < bounds[2][2].n

(* C10 *)

\* C10: the code the dictionary gives for the hover name of a clicked catalog
\* marker is the code of the clicked station.
C10_CodigoResueltoEsElClicado ==
    \A s \in Sessions :
        EsMarcador(clickData[s]) =>
            DictGet(estacion_a_codigo, Hovertext(clickData[s]))
                = PyInt(CodigoClicado(clickData[s]))

====
